---- MODULE Spec2Model ----
(***************************************************************************)
(* Model of the asynchronous SEO crawler (crawler_async.py): the retrying  *)
(* fetcher, the robots.txt evaluator and the worker pool behind the        *)
(* concurrency gate.                                                       *)
(*                                                                         *)
(* Text is modelled as a sequence of tokens.  A path or rule value is a    *)
(* sequence of one-character tokens ("/", "a", "b"); the tokens            *)
(* "User-agent", "Disallow", "Allow", "404", "http://", "https://" and the *)
(* host names stand for the character runs they spell.  A robots.txt body  *)
(* is the sequence of its lines (the result of str.splitlines).            *)
(***************************************************************************)
EXTENDS Integers, Sequences, FiniteSets, TLC

VARIABLES
    fcall,      \* the frame of one fetch() call: retries, attempt, last_exc, outcome
    flog,       \* history: the outcome of every GET attempt the call has issued
    rcall,      \* one check_robots() call: the page URL and what it returned
    urls,       \* crawl(): the input list
    concurrency, \* crawl(): the configured gate size
    sem,        \* crawl(): free permits of the asyncio.Semaphore
    workers,    \* crawl(): the worker coroutine of every input URL
    results,    \* crawl(): the rows handed to the DataFrame
    crawlState, \* crawl(): "running", "returned" or "raised"
    finished,   \* history: the workers in the order in which they ended
    lcall,      \* one find_broken_links() call: the page, its links and probes
    llog,       \* history: every probe request of the call, (method, link)
    sp          \* one crawl_domain() call: the frontier and the loop position

fetchVars == <<fcall, flog>>
robotsVars == <<rcall>>
crawlVars == <<urls, concurrency, sem, workers, results, crawlState, finished>>
linksVars == <<lcall, llog>>
spiderVars == <<sp>>
vars == <<fcall, flog, rcall, urls, concurrency, sem, workers, results, crawlState,
          finished, lcall, llog, sp>>

----------------------------------------------------------------------------
(* Bounds *)

MaxRetries == 3         \* fetch() is explored for retries in 0..MaxRetries
MaxLines == 3           \* longest robots.txt body, in lines
MaxUrls == 2            \* longest input list of crawl()
MaxConcurrency == 2     \* largest gate size of crawl()
MaxAnchors == 3         \* most anchors on a page given to find_broken_links()
MaxBudget == 3          \* largest max_urls of crawl_domain()
MaxPageLinks == 2       \* most anchors on a page the spider fetches

----------------------------------------------------------------------------
(* Text helpers (Python str methods on token sequences) *)

Min(S) == CHOOSE x \in S : \A y \in S : x <= y
Max(S) == CHOOSE x \in S : \A y \in S : x >= y

\* str.startswith
startswith(s, p) == Len(p) <= Len(s) /\ \A i \in 1..Len(p) : s[i] = p[i]

\* str.lower, token by token
LowerTok(t) ==
    CASE t = "User-agent" -> "user-agent"
      [] t = "Disallow"   -> "disallow"
      [] t = "Allow"      -> "allow"
      [] t = "NoIndex"    -> "noindex"
      [] t = "WWW.A.de"   -> "www.a.de"
      [] OTHER            -> t

lower(s) == [i \in 1..Len(s) |-> LowerTok(s[i])]

\* str.strip: drops leading and trailing blanks
strip(s) ==
    LET keep == {i \in 1..Len(s) : s[i] # " "}
    IN  IF keep = {} THEN <<>> ELSE SubSeq(s, Min(keep), Max(keep))

\* position of the first ":" of s, 0 when there is none
FirstColon(s) ==
    LET at == {i \in 1..Len(s) : s[i] = ":"}
    IN  IF at = {} THEN 0 ELSE Min(at)

\* str.partition(":") -> (head, value)
partition(s) ==
    LET c == FirstColon(s)
    IN  IF c = 0 THEN [head |-> s, val |-> <<>>]
        ELSE [head |-> SubSeq(s, 1, c - 1), val |-> SubSeq(s, c + 1, Len(s))]

\* urllib.parse.unquote: percent-decoding
UnquoteTok(t) == IF t = "%61" THEN "a" ELSE t
unquote(s) == [i \in 1..Len(s) |-> UnquoteTok(s[i])]

----------------------------------------------------------------------------
(* URLs: <<scheme, host, path characters...>>; a scheme-less URL has no    *)
(* scheme token.                                                           *)

Schemes == {"http://", "https://"}

HasScheme(u) == Len(u) >= 1 /\ u[1] \in Schemes

\* urllib.parse.urlparse: only an http(s) URL has a netloc here
urlparse(u) ==
    IF HasScheme(u)
    THEN [scheme |-> u[1], netloc |-> u[2], path |-> SubSeq(u, 3, Len(u))]
    ELSE [scheme |-> "", netloc |-> "", path |-> u]

----------------------------------------------------------------------------
(* fetch(session, url, retries)                                            *)

TransportErrors == {"ClientConnectorError", "TimeoutError"}
Statuses == {200, 404, 500}

NoBody == <<>>
NoHeaders == [names |-> {}, x_robots_tag |-> <<>>]

\* what one GET ends in: (r.status, text, r.headers) or an exception
Response(status, body, headers) ==
    [kind |-> "response", status |-> status, body |-> body, headers |-> headers,
     exc |-> "None"]
Failure(exc) ==
    [kind |-> "error", status |-> 0, body |-> NoBody, headers |-> NoHeaders,
     exc |-> exc]
NoOutcome ==
    [kind |-> "none", status |-> 0, body |-> NoBody, headers |-> NoHeaders,
     exc |-> "None"]

\* the frame on entry: last_exc = None, the loop has not started
NewFetch(retries) ==
    [retries |-> retries, attempt |-> 0, last_exc |-> "None",
     st |-> "running", result |-> NoOutcome, raised |-> "None"]

\* the loop condition of `for attempt in range(retries)`
fetch_in_loop(f) == f.st = "running" /\ f.attempt < f.retries

RetryOnServerError(f, out) ==
    IF out.kind = "response" /\ out.status < 500
    THEN [f EXCEPT !.st = "returned", !.result = out]
    ELSE [f EXCEPT !.last_exc = IF out.kind = "error" THEN out.exc ELSE "HTTPError",
                   !.attempt = @ + 1]

\* one pass of the loop body: the GET either yields a response, which is
\* returned whatever its status, or raises, which is remembered and slept on
fetch_attempt(f, out) ==
    IF out.kind = "response"
    THEN [f EXCEPT !.st = "returned", !.result = out]
    ELSE [f EXCEPT !.last_exc = out.exc, !.attempt = @ + 1]

\* the loop is over: `raise last_exc`; raising None is a TypeError
fetch_exhausted(f) ==
    [f EXCEPT !.st = "raised",
              !.raised = IF f.last_exc = "None" THEN "TypeError" ELSE f.last_exc]

----------------------------------------------------------------------------
(* check_robots(session, page_url)                                         *)

Verdicts == {"Allowed", "Disallowed", "robots.txt error", "robots.txt not found"}

\* the scan of lines i..Len(txt) with the block flag ua and the rules so far
RECURSIVE parse_lines(_, _, _, _, _)
parse_lines(txt, i, ua, allow, dis) ==
    IF i > Len(txt) THEN [exc |-> "None", allow |-> allow, dis |-> dis]
    ELSE
      LET line == strip(txt[i])
      IN  IF line = <<>> \/ line[1] = "#"
          THEN parse_lines(txt, i + 1, ua, allow, dis)
          ELSE IF startswith(lower(line), <<"user-agent">>)
          THEN IF FirstColon(line) = 0
               THEN [exc |-> "IndexError", allow |-> allow, dis |-> dis]
               ELSE LET value == partition(line).val
                    IN  parse_lines(txt, i + 1,
                                    \E k \in 1..Len(value) : value[k] = "*",
                                    allow, dis)
          ELSE IF ~ua
          THEN parse_lines(txt, i + 1, ua, allow, dis)
          ELSE LET p   == partition(line)
                   d   == strip(lower(p.head))
                   val == strip(p.val)
               IN  IF d = <<"disallow">> /\ val # <<>>
                   THEN parse_lines(txt, i + 1, ua, allow, Append(dis, val))
                   ELSE IF d = <<"allow">>
                   THEN parse_lines(txt, i + 1, ua, Append(allow, val), dis)
                   ELSE parse_lines(txt, i + 1, ua, allow, dis)

\* max((x for x in rules if path.startswith(x)), default="", key=len)
RECURSIVE best_match(_, _, _, _)
best_match(rules, path, i, best) ==
    IF i > Len(rules) THEN best
    ELSE IF startswith(path, rules[i]) /\ Len(rules[i]) > Len(best)
    THEN best_match(rules, path, i + 1, rules[i])
    ELSE best_match(rules, path, i + 1, best)

StrictAllow(allow, dis, path) ==
    LET best_a == best_match(allow, path, 1, <<>>)
        best_d == best_match(dis, path, 1, <<>>)
    IN  IF Len(best_a) > Len(best_d) THEN "Allowed" ELSE "Disallowed"

\* the verdict of the rule sets for a path
robots_verdict(allow, dis, path) ==
    LET best_a == best_match(allow, path, 1, <<>>)
        best_d == best_match(dis, path, 1, <<>>)
    IN  IF Len(best_a) >= Len(best_d) THEN "Allowed" ELSE "Disallowed"

\* p.path or "/", percent-decoded
robots_path(page_url) ==
    LET p == urlparse(page_url)
    IN  unquote(IF p.path = <<>> THEN <<"/">> ELSE p.path)

\* txt.lower().startswith("404")
body_is_404(txt) ==
    Len(txt) >= 1 /\ startswith(lower(txt[1]), <<"404">>)

NoRules == [exc |-> "None", allow |-> <<>>, dis |-> <<>>]

\* what check_robots returns (or raises) once the fetch has ended
RobotsErrorAsAllowed ==
    [verdict |-> "Allowed", exc |-> "None", evaluated |-> FALSE, rules |-> NoRules]

\* the fetch raised
check_robots_failed ==
    [verdict |-> "robots.txt error", exc |-> "None", evaluated |-> FALSE,
     rules |-> NoRules]

\* the fetch returned the body txt
check_robots_body(txt, page_url) ==
    IF body_is_404(txt)
    THEN [verdict |-> "robots.txt not found", exc |-> "None",
          evaluated |-> FALSE, rules |-> NoRules]
    ELSE LET r == parse_lines(txt, 1, FALSE, <<>>, <<>>)
         IN  IF r.exc # "None"
             THEN [verdict |-> "None", exc |-> r.exc, evaluated |-> FALSE,
                   rules |-> r]
             ELSE [verdict |-> robots_verdict(r.allow, r.dis, robots_path(page_url)),
                   exc |-> "None", evaluated |-> TRUE, rules |-> r]

NoReturn ==
    [verdict |-> "None", exc |-> "None", evaluated |-> FALSE, rules |-> NoRules]

----------------------------------------------------------------------------
(* Page analysis: check_noindex, parse_page, detect_cms                    *)

Contains(s, t) == \E i \in 1..Len(s) : s[i] = t

NoHtml ==
    [title |-> "", description |-> "", h1 |-> "", words |-> 0,
     generator |-> "", meta_robots |-> <<>>, anchors |-> <<>>]

check_noindex(html, headers) ==
    IF "X-Robots-Tag" \in headers.names /\ Contains(lower(headers.x_robots_tag), "noindex")
    THEN "NOINDEX via Header"
    ELSE IF Contains(lower(html.meta_robots), "noindex")
    THEN "NOINDEX via Meta"
    ELSE "Indexable"

parse_page(html) ==
    [title |-> html.title, meta_desc |-> html.description, h1 |-> html.h1,
     wc |-> html.words]

detect_cms(html) == IF html.generator # "" THEN html.generator ELSE "Unbekannt"

----------------------------------------------------------------------------
(* find_broken_links and check_link                                        *)

ALLOWED_EXTERNALS == {"berendsohn-digitalservice.de", "berendsohn-digital.de"}

\* netloc[4:] when the host starts with "www."
StripWww(h) == IF h = "www.a.de" THEN "a.de" ELSE h

normalize_netloc(netloc) == StripWww(LowerTok(netloc))

\* link_norm.endswith("." + allowed)
IsSubdomainOf(h, d) == h = "shop.berendsohn-digital.de" /\ d = "berendsohn-digital.de"

AllowAnyHost(link_norm, base_norm) == TRUE

is_allowed_external(link_norm, base_norm) ==
    \/ link_norm = base_norm
    \/ \E allowed \in ALLOWED_EXTERNALS :
          link_norm = allowed \/ IsSubdomainOf(link_norm, allowed)

\* urllib.parse.urljoin: an href with a scheme stands for itself, a fragment is
\* put behind the base, an absolute path replaces the path of the base
urljoin(base_url, href) ==
    IF HasScheme(href) \/ href[1] \in {"mailto:", "tel:", "javascript:"} THEN href
    ELSE IF href[1] = "#" THEN base_url \o href
    ELSE <<base_url[1], base_url[2]>> \o href

DictKeepFirst(d, link, text) ==
    IF \E k \in 1..Len(d) : d[k].link = link THEN d
    ELSE Append(d, [link |-> link, text |-> text])

\* dict assignment links_with_text[full_link] = anchor: a new key goes to the
\* end, a known key keeps its place and takes the new text
DictPut(d, link, text) ==
    IF \E k \in 1..Len(d) : d[k].link = link
    THEN [k \in 1..Len(d) |-> IF d[k].link = link THEN [d[k] EXCEPT !.text = text]
                                                  ELSE d[k]]
    ELSE Append(d, [link |-> link, text |-> text])

RECURSIVE collect_links(_, _, _, _)
collect_links(anchors, base_url, i, d) ==
    IF i > Len(anchors) THEN d
    ELSE
      LET href == anchors[i].href
      IN  IF href = <<>> \/ href[1] \in {"mailto:", "tel:", "#"}
          THEN collect_links(anchors, base_url, i + 1, d)
          ELSE LET full_link == urljoin(base_url, href)
                   link_norm == normalize_netloc(urlparse(full_link).netloc)
                   base_norm == normalize_netloc(urlparse(base_url).netloc)
               IN  IF ~is_allowed_external(link_norm, base_norm)
                   THEN collect_links(anchors, base_url, i + 1, d)
                   ELSE collect_links(anchors, base_url, i + 1,
                                      DictPut(d, full_link, anchors[i].text))

links_with_text(html, base_url) == collect_links(html.anchors, base_url, 1, <<>>)

\* 200 <= resp.status < 400 or resp.status == 429
healthy(status) == (200 <= status /\ status < 400) \/ status = 429

\* a probe: the HEAD is in flight, then perhaps the GET, then the result
NewProbe == [st |-> "head", result |-> "None"]

\* the HEAD ended: a response settles the link, an exception falls back to GET
check_link_head(p, out) ==
    IF out.kind = "response"
    THEN [p EXCEPT !.st = "done",
                   !.result = IF healthy(out.status) THEN "None" ELSE "link"]
    ELSE [p EXCEPT !.st = "get"]

\* the GET ended
check_link_get(p, out) ==
    [p EXCEPT !.st = "done",
              !.result = IF out.kind = "response" /\ healthy(out.status)
                         THEN "None" ELSE "link"]

\* the rest of find_broken_links once every probe has returned
RECURSIVE broken_list(_, _, _)
broken_list(links, probes, i) ==
    IF i > Len(links) THEN <<>>
    ELSE IF probes[i].result # "None"
    THEN <<[link |-> links[i].link,
            text |-> IF links[i].text # "" THEN links[i].text ELSE "[kein Text]"]>>
             \o broken_list(links, probes, i + 1)
    ELSE broken_list(links, probes, i + 1)

\* `return 0` when nothing was checked or nothing is broken, else the joined text
broken_links_value(broken) == [zero |-> broken = <<>>, items |-> broken]

----------------------------------------------------------------------------
(* worker(url, session, sem)                                               *)

WorkerRetries == 3
RobotsRetries == 2

NoFetch == [NewFetch(0) EXCEPT !.st = "idle"]
NoRecord == [URL |-> <<>>]

NewWorker(u) ==
    [pc |-> "start", url |-> u, permit |-> FALSE, fetch |-> NoFetch,
     html |-> NoHtml, headers |-> NoHeaders, robots |-> "None",
     links |-> <<>>, probes |-> <<>>, ret |-> NoRecord, exc |-> "None"]

\* if not url.startswith(("http://", "https://")): url = "https://" + url
normalize_url(u) == IF HasScheme(u) THEN u ELSE <<"https://">> \o u

GateAlwaysOpen(s) == TRUE

\* the semaphore lets a waiter in only while its value is positive
sem_free(s) == s > 0

\* `async with sem` entered: the primary fetch starts
worker_enter(w) ==
    [w EXCEPT !.pc = "fetch", !.url = normalize_url(w.url), !.permit = TRUE,
              !.fetch = NewFetch(WorkerRetries)]

\* the locals of a worker that has left `async with sem`
worker_leave(w, pc, ret, exc) ==
    [w EXCEPT !.pc = pc, !.permit = FALSE, !.fetch = NoFetch, !.html = NoHtml,
              !.headers = NoHeaders, !.robots = "None", !.links = <<>>,
              !.probes = <<>>, !.ret = ret, !.exc = exc]

ErrorRecordWithPolicy(url, exc) ==
    ("URL" :> url) @@ ("Status" :> <<"Error: ", exc>>)
        @@ ("Robots Policy" :> "robots.txt error")

\* {"URL": url, "Status": f"Error: {e}"}
error_record(url, exc) == ("URL" :> url) @@ ("Status" :> <<"Error: ", exc>>)

full_record(w, broken) ==
    LET page == parse_page(w.html)
    IN  ("URL" :> w.url) @@
        ("Status" :> <<check_noindex(w.html, w.headers)>>) @@
        ("Robots Policy" :> w.robots) @@
        ("Title" :> page.title) @@
        ("Meta Description" :> page.meta_desc) @@
        ("H1" :> page.h1) @@
        ("Woerter" :> page.wc) @@
        ("CMS" :> detect_cms(w.html)) @@
        ("Broken Links" :> broken_links_value(broken))

LeakPermitOnError(w, exc) ==
    [worker_leave(w, "done", error_record(w.url, exc), "None") EXCEPT !.permit = TRUE]

\* except Exception as e: return the error record
worker_fetch_failed(w, exc) ==
    worker_leave(w, "done", error_record(w.url, exc), "None")

\* the last statement: return the full record
worker_return(w, broken) == worker_leave(w, "done", full_record(w, broken), "None")

\* an exception that nothing in worker catches
worker_raise(w, exc) == worker_leave(w, "raised", NoRecord, exc)

ReleaseAfterFetch(w, out) ==
    [w EXCEPT !.pc = "robots", !.html = out.body, !.headers = out.headers,
              !.permit = FALSE, !.fetch = NewFetch(RobotsRetries)]

\* the primary fetch returned: the page is kept and check_robots starts its
\* own fetch, still inside `async with sem`
worker_fetched(w, out) ==
    [w EXCEPT !.pc = "robots", !.html = out.body, !.headers = out.headers,
              !.fetch = NewFetch(RobotsRetries)]

\* find_broken_links up to the gather: no link, no probe
worker_probe(w, verdict) ==
    LET links == links_with_text(w.html, w.url)
        v     == [w EXCEPT !.robots = verdict, !.fetch = NoFetch]
    IN  IF links = <<>> THEN worker_return(v, <<>>)
        ELSE [v EXCEPT !.pc = "links", !.links = links,
                       !.probes = [k \in 1..Len(links) |-> NewProbe]]

\* check_robots has ended with ret
worker_robots_end(w, ret) ==
    IF ret.exc # "None" THEN worker_raise(w, ret.exc)
    ELSE worker_probe(w, ret.verdict)

\* a probe of the gather has ended; the last one lets the worker return
worker_probed(w, k, p) ==
    LET v == [w EXCEPT !.probes[k] = p]
    IN  IF \A j \in 1..Len(v.probes) : v.probes[j].st = "done"
        THEN worker_return(v, broken_list(v.links, v.probes, 1))
        ELSE v

GatherAsCompleted(ws) == [i \in 1..Len(ws) |-> ws[finished[i]].ret]

\* asyncio.gather hands back the results in the order of its arguments
gather(ws) == [i \in 1..Len(ws) |-> ws[i].ret]

----------------------------------------------------------------------------
(* crawler_spider.py: crawl_domain(start_input, max_urls)                  *)

\* str.rstrip("/")
rstrip_slash(s) ==
    LET keep == {i \in 1..Len(s) : s[i] # "/"}
    IN  IF keep = {} THEN <<>> ELSE SubSeq(s, 1, Max(keep))

\* urldefrag(url)[0]: the URL without its fragment
urldefrag(u) ==
    LET at == {i \in 1..Len(u) : u[i] = "#"}
    IN  IF at = {} THEN u ELSE SubSeq(u, 1, Min(at) - 1)

\* strip, lower, "https://" unless the text starts with "http", rstrip("/")
normalize_domain(domain) ==
    LET d == lower(strip(domain))
    IN  rstrip_slash(IF HasScheme(d) THEN d ELSE <<"https://">> \o d)

\* hostname[4:] if hostname.startswith("www.")
strip_www(hostname) == StripWww(hostname)

is_valid_link(href) ==
    href = <<>> \/ href[1] \notin {"mailto:", "tel:", "javascript:"}

\* what spider fetch() hands back: the text of a 200 text/html response,
\* None otherwise and after an exception
NoPage == [present |-> FALSE, hrefs |-> <<>>]

FetchAnyResponse(out) == IF out.kind = "response" THEN out.page ELSE NoPage

spider_fetch(out) ==
    IF out.kind = "response" /\ out.status = 200 /\ out.ctype = "text/html"
    THEN out.page
    ELSE NoPage

\* the order of str on the tokens in use
TokRank(t) ==
    CASE t = "/"         -> 1
      [] t = "a.de"      -> 2
      [] t = "http://"   -> 3
      [] t = "https://"  -> 4
      [] t = "other.com" -> 5
      [] t = "p"         -> 6
      [] t = "q"         -> 7
      [] t = "www.a.de"  -> 8
      [] OTHER           -> 9

StrLess(a, b) ==
    \/ Len(a) < Len(b) /\ startswith(b, a)
    \/ \E i \in 1..Min({Len(a), Len(b)}) :
          /\ \A j \in 1..(i - 1) : a[j] = b[j]
          /\ TokRank(a[i]) < TokRank(b[i])

RECURSIVE sorted(_)
sorted(S) ==
    IF S = {} THEN <<>>
    ELSE LET least == CHOOSE x \in S : \A y \in S \ {x} : StrLess(x, y)
         IN  <<least>> \o sorted(S \ {least})

NewSpiderCall(start_input, max_urls) ==
    [pc |-> "called", start_input |-> start_input, max_urls |-> max_urls,
     base_netloc |-> "", exact_netloc |-> "", visited |-> {}, to_visit |-> {},
     all_internal_urls |-> {}, url |-> <<>>, iterations |-> 0, dropped |-> {},
     failed |-> {}, fetch_log |-> <<>>, result |-> <<>>,
     domain_root |-> <<>>, site |-> <<>>]

\* lines 42-48 once resolve_redirect has answered start_url
spider_seed(c, start_url) ==
    LET parsed_start == urlparse(start_url)
    IN  [c EXCEPT !.pc = "loop",
                  !.base_netloc = strip_www(parsed_start.netloc),
                  !.exact_netloc = parsed_start.netloc,
                  !.domain_root = <<parsed_start.scheme, parsed_start.netloc>>,
                  !.to_visit = {<<parsed_start.scheme, parsed_start.netloc>>}]

LoopStopsEarly(c) == c.to_visit # {} /\ Cardinality(c.visited) + 1 < c.max_urls

\* while to_visit and len(visited) < max_urls
spider_loop_test(c) == c.to_visit # {} /\ Cardinality(c.visited) < c.max_urls

ForgetVisited(visited, url) == visited

\* visited.add(url)
spider_mark_visited(visited, url) == visited \cup {url}

LooseInternal(url, exact_netloc) ==
    strip_www(urlparse(url).netloc) = strip_www(exact_netloc)

\* parsed_url.netloc == exact_netloc
spider_is_internal(url, exact_netloc) == urlparse(url).netloc = exact_netloc

BudgetOffByOne(c) ==
    Cardinality(c.visited) + Cardinality(c.to_visit) <= c.max_urls

\* len(visited) + len(to_visit) < max_urls
spider_budget_left(c) ==
    Cardinality(c.visited) + Cardinality(c.to_visit) < c.max_urls

NoVisitedTest(c, full_url) ==
    /\ strip_www(urlparse(full_url).netloc) = c.base_netloc
    /\ spider_budget_left(c)

\* the test of line 71
spider_should_enqueue(c, full_url) ==
    /\ strip_www(urlparse(full_url).netloc) = c.base_netloc
    /\ full_url \notin c.visited
    /\ spider_budget_left(c)

\* history: a link that only the budget test of line 71 kept out
spider_budget_drop(c, full_url) ==
    /\ strip_www(urlparse(full_url).netloc) = c.base_netloc
    /\ full_url \notin c.visited
    /\ full_url \notin c.to_visit
    /\ ~(Cardinality(c.visited) + Cardinality(c.to_visit) < c.max_urls)

\* lines 64-72: the anchors of the fetched page, one after the other
RECURSIVE spider_expand(_, _, _)
spider_expand(c, hrefs, i) ==
    IF i > Len(hrefs) THEN c
    ELSE IF hrefs[i] = <<>> \/ ~is_valid_link(hrefs[i])
    THEN spider_expand(c, hrefs, i + 1)
    ELSE LET full_url == rstrip_slash(urldefrag(urljoin(c.url, hrefs[i])))
         IN  IF spider_should_enqueue(c, full_url)
             THEN spider_expand([c EXCEPT !.to_visit = @ \cup {full_url}], hrefs, i + 1)
             ELSE IF spider_budget_drop(c, full_url)
             THEN spider_expand([c EXCEPT !.dropped = @ \cup {full_url}], hrefs, i + 1)
             ELSE spider_expand(c, hrefs, i + 1)

PopKeeps(c, url) ==
    LET popped == [c EXCEPT !.iterations = @ + 1]
    IN  IF url \in c.visited THEN popped
        ELSE [popped EXCEPT !.visited = @ \cup {url}, !.url = url, !.pc = "fetch",
                            !.fetch_log = Append(@, url)]

\* lines 53-57: pop a URL; one that is already visited is skipped, any other
\* is marked visited and fetched (history: fetch_log lists the URLs fetched)
spider_pop(c, url) ==
    LET popped == [c EXCEPT !.to_visit = @ \ {url}, !.iterations = @ + 1]
    IN  IF url \in c.visited THEN popped
        ELSE [popped EXCEPT !.visited = spider_mark_visited(@, url),
                            !.url = url, !.pc = "fetch",
                            !.fetch_log = Append(@, url)]

\* lines 58-72: the fetch has ended with html
spider_fetched(c, html) ==
    IF ~html.present THEN [c EXCEPT !.pc = "loop", !.url = <<>>]
    ELSE LET rec == IF spider_is_internal(c.url, c.exact_netloc)
                    THEN [c EXCEPT !.all_internal_urls = @ \cup {c.url}]
                    ELSE c
         IN  [spider_expand(rec, html.hrefs, 1) EXCEPT !.pc = "loop", !.url = <<>>]

\* line 73
spider_return(c) ==
    [c EXCEPT !.pc = "returned", !.result = sorted(c.all_internal_urls)]

\* the state of a find_broken_links call: "called", "probing" (inside the
\* gather) or "returned"
NewLinksCall(html, base_url) ==
    [st |-> "called", html |-> html, base_url |-> base_url, links |-> <<>>,
     probes |-> <<>>, ret |-> broken_links_value(<<>>)]

\* lines 148-177: extract the links; none means `return 0`, else one
\* check_link task per link is started
find_broken_links_start(c) ==
    LET links == links_with_text(c.html, c.base_url)
    IN  IF links = <<>> THEN [c EXCEPT !.st = "returned"]
        ELSE [c EXCEPT !.st = "probing", !.links = links,
                       !.probes = [k \in 1..Len(links) |-> NewProbe]]

\* lines 177-187: a probe has ended; after the last one the broken links are
\* listed and returned
find_broken_links_probed(c, k, p) ==
    LET v == [c EXCEPT !.probes[k] = p]
    IN  IF \A j \in 1..Len(v.probes) : v.probes[j].st = "done"
        THEN [v EXCEPT !.st = "returned",
                       !.ret = broken_links_value(broken_list(v.links, v.probes, 1))]
        ELSE v

Request(method, link) == [method |-> method, link |-> link]

LinksIdle ==
    /\ lcall = [NewLinksCall(NoHtml, <<>>) EXCEPT !.st = "idle"]
    /\ llog = <<>>

SpiderIdle == sp = [NewSpiderCall(<<>>, 0) EXCEPT !.pc = "idle"]

CrawlIdle ==
    /\ urls = <<>>
    /\ concurrency = 0
    /\ sem = 0
    /\ workers = <<>>
    /\ results = <<>>
    /\ crawlState = "idle"
    /\ finished = <<>>

----------------------------------------------------------------------------
(* Inputs *)

RECURSIVE SeqsUpTo(_, _)
SeqsUpTo(S, n) ==
    IF n = 0 THEN {<<>>}
    ELSE LET shorter == SeqsUpTo(S, n - 1)
         IN  shorter \cup {Append(s, x) : s \in {t \in shorter : Len(t) = n - 1}, x \in S}

Range(s) == {s[i] : i \in 1..Len(s)}

\* robots.txt lines: well-formed directives in both spellings, a group for
\* another agent, a User-agent line without a colon, a comment, a blank line
\* and the first line of a "404" body
RobotsLines ==
    { <<"User-agent", ":", " ", "*">>,
      <<"user-agent", ":", "bot">>,
      <<"User-agent", ":", "*", "bot">>,
      <<"User-agent">>,
      <<"Disallow", ":", " ", "/", "a">>,
      <<"disallow", ":", "/", "a", "/", "b">>,
      <<"Disallow", ":">>,
      <<"Allow", ":", "/", "a">>,
      <<" ", "allow", " ", ":", " ", "/", "a", "/", "b", " ">>,
      <<"#", "x">>,
      <<" ">>,
      <<"404", " ", "x">> }

RobotsBodies == SeqsUpTo(RobotsLines, MaxLines)

\* the pages whose policy is asked for
PageUrls ==
    { <<"https://", "a.de">>,
      <<"https://", "a.de", "/", "a">>,
      <<"https://", "a.de", "/", "a", "/", "b">>,
      <<"http://", "b.de", "/", "%61", "/", "b">>,
      <<"http://", "b.de", "/", "b">> }

FetchBodies == {<<>>, <<<<"404", " ", "x">>>>}

FetchOutcomes ==
    {Response(s, b, NoHeaders) : s \in Statuses, b \in FetchBodies}
        \cup {Failure(e) : e \in TransportErrors}

RobotsOutcomes ==
    {Response(s, b, NoHeaders) : s \in Statuses, b \in RobotsBodies}
        \cup {Failure(e) : e \in TransportErrors}

\* the input URLs of crawl(): one without a scheme, one with
CrawlUrls == { <<"a.de">>, <<"http://", "a.de", "/", "a">> }

Anchor(href, text) == [href |-> href, text |-> text]

\* fetched pages: one without anchors that a header excludes from the index,
\* one whose anchors leave a single link to probe
PageBare ==
    [html |-> [NoHtml EXCEPT !.title = "Bare"],
     headers |-> [names |-> {"X-Robots-Tag"}, x_robots_tag |-> <<"NoIndex">>]]
PageOneLink ==
    [html |-> [NoHtml EXCEPT !.title = "One", !.meta_robots = <<"noindex", ",", "follow">>,
                             !.anchors = << Anchor(<<"/", "x">>, "first"),
                                            Anchor(<<"mailto:", "x">>, "mail"),
                                            Anchor(<<"https://", "other.com">>, "other"),
                                            Anchor(<<"/", "x">>, "") >>],
     headers |-> NoHeaders]
CrawlPages == {PageBare, PageOneLink}

PrimaryOutcomes ==
    {Response(s, pg.html, pg.headers) : s \in Statuses, pg \in CrawlPages}
        \cup {Failure(e) : e \in TransportErrors}

\* robots.txt bodies met during a crawl: rules, a malformed line, a 404 page
CrawlRobotsBodies ==
    { << <<"User-agent", ":", " ", "*">>, <<"Disallow", ":", " ", "/", "a">> >>,
      << <<"User-agent">> >>,
      << <<"404", " ", "x">> >> }

CrawlRobotsOutcomes ==
    {Response(s, b, NoHeaders) : s \in Statuses, b \in CrawlRobotsBodies}
        \cup {Failure("TimeoutError")}

ProbeOutcomes ==
    {Response(s, NoBody, NoHeaders) : s \in {200, 404, 429}}
        \cup {Failure("TimeoutError")}

----------------------------------------------------------------------------
(* One fetch() call on its own, for every retries value *)

RobotsIdle == [page_url |-> <<>>, st |-> "idle", ret |-> NoReturn]

InitFetch ==
    /\ \E r \in 0..MaxRetries : fcall = NewFetch(r)
    /\ flog = <<>>
    /\ rcall = RobotsIdle
    /\ CrawlIdle
    /\ LinksIdle
    /\ SpiderIdle

FetchAttempt ==
    /\ fetch_in_loop(fcall)
    /\ \E out \in FetchOutcomes :
          /\ fcall' = fetch_attempt(fcall, out)
          /\ flog' = Append(flog, out)
    /\ UNCHANGED <<robotsVars, crawlVars, linksVars, spiderVars>>

FetchExhausted ==
    /\ fcall.st = "running"
    /\ ~fetch_in_loop(fcall)
    /\ fcall' = fetch_exhausted(fcall)
    /\ UNCHANGED <<flog, robotsVars, crawlVars, linksVars, spiderVars>>

NextFetch == FetchAttempt \/ FetchExhausted

SpecFetch == InitFetch /\ [][NextFetch]_vars

----------------------------------------------------------------------------
(* One check_robots() call: fetch(robots_url, retries=2), then the scan *)

InitRobots ==
    /\ \E u \in PageUrls :
          rcall = [page_url |-> u, st |-> "fetching", ret |-> NoReturn]
    /\ fcall = NewFetch(RobotsRetries)
    /\ flog = <<>>
    /\ CrawlIdle
    /\ LinksIdle
    /\ SpiderIdle

\* the return of check_robots, or the exception that leaves it
check_robots_end(c, ret) ==
    [c EXCEPT !.st = IF ret.exc = "None" THEN "returned" ELSE "raised",
              !.ret = ret]

RobotsFetchAttempt ==
    /\ rcall.st = "fetching"
    /\ fetch_in_loop(fcall)
    /\ \E out \in RobotsOutcomes :
          /\ fcall' = fetch_attempt(fcall, out)
          /\ flog' = Append(flog, out)
          /\ rcall' = IF fcall'.st = "returned"
                      THEN check_robots_end(rcall,
                               check_robots_body(fcall'.result.body, rcall.page_url))
                      ELSE rcall
    /\ UNCHANGED <<crawlVars, linksVars, spiderVars>>

RobotsFetchExhausted ==
    /\ rcall.st = "fetching"
    /\ fcall.st = "running"
    /\ ~fetch_in_loop(fcall)
    /\ fcall' = fetch_exhausted(fcall)
    /\ rcall' = check_robots_end(rcall, check_robots_failed)
    /\ UNCHANGED <<flog, crawlVars, linksVars, spiderVars>>

NextRobots == RobotsFetchAttempt \/ RobotsFetchExhausted

SpecRobots == InitRobots /\ [][NextRobots]_vars

----------------------------------------------------------------------------
(* One find_broken_links() call with its check_link probes                 *)

\* anchors: the same page twice in two spellings and with an empty text, a
\* www host in capitals, a foreign host, an allow-listed subdomain, and the
\* hrefs that are skipped
LinkAnchors ==
    { Anchor(<<"/", "x">>, "one"),
      Anchor(<<"https://", "a.de", "/", "x">>, "two"),
      Anchor(<<"/", "x">>, ""),
      Anchor(<<"https://", "WWW.A.de", "/", "y">>, "y"),
      Anchor(<<"https://", "other.com">>, "other"),
      Anchor(<<"https://", "shop.berendsohn-digital.de">>, "shop"),
      Anchor(<<"mailto:", "x">>, "mail"),
      Anchor(<<"tel:", "1">>, "phone"),
      Anchor(<<"#", "top">>, "top"),
      Anchor(<<>>, "empty") }

LinkBases == { <<"https://", "a.de", "/", "p">>, <<"http://", "www.a.de">> }

InitLinks ==
    /\ \E a \in SeqsUpTo(LinkAnchors, MaxAnchors), b \in LinkBases :
          lcall = NewLinksCall([NoHtml EXCEPT !.anchors = a], b)
    /\ llog = <<>>
    /\ fcall = NoFetch
    /\ flog = <<>>
    /\ rcall = RobotsIdle
    /\ CrawlIdle
    /\ SpiderIdle

\* the call runs up to the gather: every check_link task sends its HEAD
LinksStart ==
    /\ lcall.st = "called"
    /\ lcall' = find_broken_links_start(lcall)
    /\ llog' = [k \in 1..Len(lcall'.links) |-> Request("HEAD", lcall'.links[k].link)]
    /\ UNCHANGED <<fetchVars, robotsVars, crawlVars, spiderVars>>

\* the HEAD of probe k ends; after an exception the GET is sent
LinkHeadEnds ==
    /\ lcall.st = "probing"
    /\ \E k \in 1..Len(lcall.probes), out \in ProbeOutcomes :
          /\ lcall.probes[k].st = "head"
          /\ LET p == check_link_head(lcall.probes[k], out)
             IN  /\ lcall' = find_broken_links_probed(lcall, k, p)
                 /\ llog' = IF p.st = "get"
                            THEN Append(llog, Request("GET", lcall.links[k].link))
                            ELSE llog
    /\ UNCHANGED <<fetchVars, robotsVars, crawlVars, spiderVars>>

\* the GET of probe k ends
LinkGetEnds ==
    /\ lcall.st = "probing"
    /\ \E k \in 1..Len(lcall.probes), out \in ProbeOutcomes :
          /\ lcall.probes[k].st = "get"
          /\ lcall' = find_broken_links_probed(lcall, k,
                          check_link_get(lcall.probes[k], out))
    /\ UNCHANGED <<llog, fetchVars, robotsVars, crawlVars, spiderVars>>

NextLinks == LinksStart \/ LinkHeadEnds \/ LinkGetEnds

SpecLinks == InitLinks /\ [][NextLinks]_vars

----------------------------------------------------------------------------
(* One crawl_domain() call                                                 *)

\* what the caller types: bare hosts, a URL with a trailing slash, capitals
SpiderStarts ==
    { <<"a.de">>, <<"www.a.de">>, <<"WWW.A.de", "/">>, <<"https://", "a.de", "/">> }

\* where the start URL may redirect to
RedirectTargets ==
    { <<"https://", "www.a.de", "/">>, <<"https://", "a.de", "/", "p">> }

\* hrefs: the root, a page with a trailing slash, one with a fragment, the
\* same site without and with www, a foreign site, a mail address
SpiderHrefs ==
    { <<"/">>, <<"/", "p", "/">>, <<"/", "q", "#", "f">>,
      <<"https://", "a.de", "/", "p">>, <<"https://", "www.a.de", "/", "q">>,
      <<"https://", "other.com">>, <<"mailto:", "x">> }

SpiderPages ==
    { [present |-> TRUE, hrefs |-> h] : h \in SeqsUpTo(SpiderHrefs, MaxPageLinks) }

SpiderResponse(status, ctype, page) ==
    [kind |-> "response", status |-> status, ctype |-> ctype, page |-> page]

\* a fetch ends with an exception, a status other than 200, a body that is
\* not HTML, an empty text, or a page
SpiderOutcomes ==
    { [kind |-> "exception", status |-> 0, ctype |-> "", page |-> NoPage],
      SpiderResponse(404, "text/html", [present |-> TRUE, hrefs |-> <<<<"/", "q">>>>]),
      SpiderResponse(200, "application/pdf", [present |-> TRUE, hrefs |-> <<<<"/", "q">>>>]),
      SpiderResponse(200, "text/html", NoPage) }
    \cup { SpiderResponse(200, "text/html", pg) : pg \in SpiderPages }

\* no run is followed beyond this many iterations of the loop
IterCap == MaxBudget + 2

InitSpider ==
    /\ \E s \in SpiderStarts, m \in 1..MaxBudget : sp = NewSpiderCall(s, m)
    /\ fcall = NoFetch
    /\ flog = <<>>
    /\ rcall = RobotsIdle
    /\ CrawlIdle
    /\ LinksIdle

\* lines 40-48: resolve_redirect answers the final URL, or the URL it was
\* given after an exception
SpiderStart ==
    /\ sp.pc = "called"
    /\ LET original_start == normalize_domain(sp.start_input)
       IN  \E start_url \in {original_start} \cup RedirectTargets :
              sp' = spider_seed(sp, start_url)
    /\ UNCHANGED <<fetchVars, robotsVars, crawlVars, linksVars>>

\* lines 52-57: one iteration up to the await of fetch, or a whole one that
\* skips a visited URL; set.pop() takes any element
SpiderPop ==
    /\ sp.pc = "loop"
    /\ spider_loop_test(sp)
    /\ sp.iterations < IterCap
    /\ \E url \in sp.to_visit : sp' = spider_pop(sp, url)
    /\ UNCHANGED <<fetchVars, robotsVars, crawlVars, linksVars>>

\* the fetch raised, answered a status other than 200, or a body that is
\* not HTML
spider_fetch_failed(out) ==
    out.kind = "exception" \/ out.status # 200 \/ out.ctype # "text/html"

\* lines 57-72: the fetch ends and the page is worked through (history:
\* failed lists the URLs whose fetch failed)
SpiderFetched ==
    /\ sp.pc = "fetch"
    /\ \E out \in SpiderOutcomes :
          sp' = [spider_fetched(sp, spider_fetch(out)) EXCEPT
                    !.failed = IF spider_fetch_failed(out) THEN @ \cup {sp.url} ELSE @]
    /\ UNCHANGED <<fetchVars, robotsVars, crawlVars, linksVars>>

\* lines 52 and 73: the loop test fails and the sorted list is returned
SpiderReturn ==
    /\ sp.pc = "loop"
    /\ ~spider_loop_test(sp)
    /\ sp' = spider_return(sp)
    /\ UNCHANGED <<fetchVars, robotsVars, crawlVars, linksVars>>

NextSpider == SpiderStart \/ SpiderPop \/ SpiderFetched \/ SpiderReturn

SpecSpider == InitSpider /\ [][NextSpider]_vars

\* the event loop runs a task that can run: resolve_redirect and fetch carry
\* timeouts, so each await ends
SpecSpiderFair == SpecSpider /\ WF_vars(NextSpider)

----------------------------------------------------------------------------
(* One crawl_domain() call on a fixed site: each URL has one page          *)

SiteUrls ==
    { <<"https://", "www.a.de">>, <<"https://", "a.de">>,
      <<"https://", "www.a.de", "/", "p">> }

\* the anchors of a page: none; a page with a trailing slash; the root (a
\* self-link on the root, a cycle elsewhere) and a fragment; the other
\* spelling of the host; a foreign site and a mail address
SiteAnchors ==
    { <<>>,
      << <<"/", "p", "/">> >>,
      << <<"/">>, <<"/", "q", "#", "f">> >>,
      << <<"https://", "a.de", "/", "p">>, <<"https://", "www.a.de">> >>,
      << <<"https://", "other.com">>, <<"mailto:", "x">> >> }

\* the page behind a URL; a URL the site does not list has no anchors
site_page(site, url) ==
    [present |-> TRUE, hrefs |-> IF url \in DOMAIN site THEN site[url] ELSE <<>>]

InitSite ==
    /\ \E s \in SpiderStarts, m \in 1..MaxBudget, site \in [SiteUrls -> SiteAnchors] :
          sp = [NewSpiderCall(s, m) EXCEPT !.site = site]
    /\ fcall = NoFetch
    /\ flog = <<>>
    /\ rcall = RobotsIdle
    /\ CrawlIdle
    /\ LinksIdle

\* lines 57-72: the fetch answers the page of the site, or fails
SiteFetched ==
    /\ sp.pc = "fetch"
    /\ \/ sp' = spider_fetched(sp, site_page(sp.site, sp.url))
       \/ sp' = [spider_fetched(sp, NoPage) EXCEPT !.failed = @ \cup {sp.url}]
    /\ UNCHANGED <<fetchVars, robotsVars, crawlVars, linksVars>>

NextSite == SpiderStart \/ SpiderPop \/ SiteFetched \/ SpiderReturn

SpecSite == InitSite /\ [][NextSite]_vars

----------------------------------------------------------------------------
(* crawl(urls, concurrency): the workers behind the gate, gathered         *)

Workers == 1..Len(workers)

Init ==
    /\ urls \in SeqsUpTo(CrawlUrls, MaxUrls)
    /\ concurrency \in 1..MaxConcurrency
    /\ sem = concurrency
    /\ workers = [i \in 1..Len(urls) |-> NewWorker(urls[i])]
    /\ results = <<>>
    /\ crawlState = "running"
    /\ finished = <<>>
    /\ fcall = NoFetch
    /\ flog = <<>>
    /\ rcall = RobotsIdle
    /\ LinksIdle
    /\ SpiderIdle

\* worker i moves to the state new; entering and leaving `async with sem`
\* takes and gives back one permit
Step(i, new) ==
    /\ workers' = [workers EXCEPT ![i] = new]
    /\ sem' = sem + (IF workers[i].permit /\ ~new.permit THEN 1 ELSE 0)
                  - (IF ~workers[i].permit /\ new.permit THEN 1 ELSE 0)
    /\ finished' = IF new.pc \in {"done", "raised"} THEN Append(finished, i)
                   ELSE finished
    /\ UNCHANGED <<urls, concurrency, results, crawlState, fetchVars, robotsVars,
                   linksVars, spiderVars>>

Acquire(i) ==
    /\ crawlState = "running"
    /\ workers[i].pc = "start"
    /\ sem_free(sem)
    /\ Step(i, worker_enter(workers[i]))

PrimaryAttempt(i) ==
    /\ crawlState = "running"
    /\ workers[i].pc = "fetch"
    /\ fetch_in_loop(workers[i].fetch)
    /\ \E out \in PrimaryOutcomes :
          LET f == fetch_attempt(workers[i].fetch, out)
              w == [workers[i] EXCEPT !.fetch = f]
          IN  Step(i, IF f.st = "returned" THEN worker_fetched(w, f.result) ELSE w)

PrimaryExhausted(i) ==
    /\ crawlState = "running"
    /\ workers[i].pc = "fetch"
    /\ workers[i].fetch.st = "running"
    /\ ~fetch_in_loop(workers[i].fetch)
    /\ Step(i, worker_fetch_failed(workers[i], fetch_exhausted(workers[i].fetch).raised))

RobotsAttempt(i) ==
    /\ crawlState = "running"
    /\ workers[i].pc = "robots"
    /\ fetch_in_loop(workers[i].fetch)
    /\ \E out \in CrawlRobotsOutcomes :
          LET f == fetch_attempt(workers[i].fetch, out)
              w == [workers[i] EXCEPT !.fetch = f]
          IN  Step(i, IF f.st = "returned"
                      THEN worker_robots_end(w, check_robots_body(f.result.body, w.url))
                      ELSE w)

RobotsExhausted(i) ==
    /\ crawlState = "running"
    /\ workers[i].pc = "robots"
    /\ workers[i].fetch.st = "running"
    /\ ~fetch_in_loop(workers[i].fetch)
    /\ Step(i, worker_robots_end(workers[i], check_robots_failed))

ProbeHead(i) ==
    /\ crawlState = "running"
    /\ workers[i].pc = "links"
    /\ \E k \in 1..Len(workers[i].probes), out \in ProbeOutcomes :
          /\ workers[i].probes[k].st = "head"
          /\ Step(i, worker_probed(workers[i], k,
                        check_link_head(workers[i].probes[k], out)))

ProbeGet(i) ==
    /\ crawlState = "running"
    /\ workers[i].pc = "links"
    /\ \E k \in 1..Len(workers[i].probes), out \in ProbeOutcomes :
          /\ workers[i].probes[k].st = "get"
          /\ Step(i, worker_probed(workers[i], k,
                        check_link_get(workers[i].probes[k], out)))

\* every worker has returned: gather returns and crawl builds the DataFrame
CrawlReturn ==
    /\ crawlState = "running"
    /\ \A i \in Workers : workers[i].pc = "done"
    /\ results' = gather(workers)
    /\ crawlState' = "returned"
    /\ UNCHANGED <<urls, concurrency, sem, workers, finished, fetchVars, robotsVars,
                   linksVars, spiderVars>>

\* a worker has raised: gather passes the exception on and crawl ends with it
CrawlRaise ==
    /\ crawlState = "running"
    /\ \E i \in Workers : workers[i].pc = "raised"
    /\ crawlState' = "raised"
    /\ UNCHANGED <<urls, concurrency, sem, workers, results, finished, fetchVars,
                   robotsVars, linksVars, spiderVars>>

Next ==
    \/ \E i \in Workers : Acquire(i)
    \/ \E i \in Workers : PrimaryAttempt(i)
    \/ \E i \in Workers : PrimaryExhausted(i)
    \/ \E i \in Workers : RobotsAttempt(i)
    \/ \E i \in Workers : RobotsExhausted(i)
    \/ \E i \in Workers : ProbeHead(i)
    \/ \E i \in Workers : ProbeGet(i)
    \/ CrawlReturn
    \/ CrawlRaise

Spec == Init /\ [][Next]_vars

\* the steps of worker i that end one of its network requests
RequestEnds(i) ==
    \/ PrimaryAttempt(i) \/ PrimaryExhausted(i)
    \/ RobotsAttempt(i) \/ RobotsExhausted(i)
    \/ ProbeHead(i) \/ ProbeGet(i)

\* every request ends (the session timeout and the probes' timeout cover the
\* wait for a connection of the pool too), asyncio.Semaphore wakes its
\* waiters in the order they came, and the event loop runs what can run
SpecFair ==
    /\ Spec
    /\ \A i \in 1..MaxUrls :
          /\ WF_vars(i \in Workers /\ RequestEnds(i))
          /\ SF_vars(i \in Workers /\ Acquire(i))
    /\ WF_vars(CrawlReturn \/ CrawlRaise)

----------------------------------------------------------------------------
(* Claims about crawl and worker *)

InPrimaryFetch == {i \in Workers : workers[i].pc = "fetch"}
InAnalysis == {i \in Workers : workers[i].pc \in {"fetch", "robots", "links"}}
Waiting == {i \in Workers : workers[i].pc = "start"}

\* C1: with concurrency >= 1, the number of workers inside their primary
\* fetch never exceeds concurrency.
C1_FetchesBoundedByGate ==
    Cardinality(InPrimaryFetch) <= concurrency

C1_Witness ==
    /\ Cardinality(InPrimaryFetch) = concurrency
    /\ Waiting # {}
    /\ sem = 0

\* C2 as stated: a worker that is at its robots.txt fetch or its link probes
\* has already given back its gate permit.
C2_GateOnlyDuringFetch ==
    \A i \in Workers : workers[i].pc \in {"robots", "links"} => ~workers[i].permit

\* C2 amended: a worker keeps its permit from the start of its primary fetch
\* until it returns or raises, its robots.txt fetch and link probes included,
\* so at most concurrency workers are anywhere between acquiring and ending.
C2_GateHeldThroughAnalysis ==
    /\ \A i \in Workers : workers[i].permit <=> i \in InAnalysis
    /\ Cardinality(InAnalysis) <= concurrency
    /\ sem = concurrency - Cardinality(InAnalysis)

C2_Witness ==
    /\ \E i \in Workers : workers[i].pc = "links" /\ workers[i].permit
    /\ Waiting # {}
    /\ sem = 0

IsErrorRecord(r) == DOMAIN r = {"URL", "Status"}

\* C3: a worker whose primary fetch failed after all retries returns at once
\* a record with the URL and an error-marked Status and nothing else, and
\* does nothing afterwards (no robots.txt fetch, no link probe).
C3_FailedFetchShortCircuits ==
    [][\A i \in Workers :
          /\ ( /\ workers[i].pc = "fetch"
               /\ workers[i].fetch.attempt = WorkerRetries
               /\ workers'[i] # workers[i] )
             => /\ workers'[i].pc = "done"
                /\ DOMAIN workers'[i].ret = {"URL", "Status"}
                /\ workers'[i].ret["URL"] = workers[i].url
                /\ workers'[i].ret["Status"] = <<"Error: ", workers[i].fetch.last_exc>>
                /\ workers[i].fetch.last_exc \in TransportErrors
          /\ workers[i].pc = "done" => workers'[i] = workers[i]]_vars

C3_Witness ==
    \E i, j \in Workers :
        /\ workers[i].pc = "done"
        /\ IsErrorRecord(workers[i].ret)
        /\ workers[j].pc = "links"

\* C4: crawl returns one record per input URL, the i-th being the record of
\* the i-th input URL with https:// put before a scheme-less URL, whatever
\* the order in which the workers ended.
C4_ResultsInInputOrder ==
    crawlState = "returned" =>
        /\ Len(results) = Len(urls)
        /\ \A i \in 1..Len(urls) :
              /\ results[i] = workers[i].ret
              /\ results[i]["URL"] = IF urls[i][1] \in {"http://", "https://"}
                                     THEN urls[i]
                                     ELSE <<"https://">> \o urls[i]

C4_Witness ==
    /\ crawlState = "returned"
    /\ Len(urls) = 2
    /\ urls[1] # urls[2]
    /\ finished = <<2, 1>>
    /\ results[1]["URL"] = <<"http://", "a.de", "/", "a">>
    /\ results[2]["URL"] = <<"https://", "a.de">>

\* C5: no failure while processing one URL aborts the batch: no worker ends
\* with an exception and crawl never raises.
C5_FailuresContained ==
    /\ crawlState # "raised"
    /\ \A i \in Workers : workers[i].pc # "raised"

----------------------------------------------------------------------------
(* crawl() from the call on, for any concurrency argument                  *)

InitConfig ==
    /\ urls \in SeqsUpTo(CrawlUrls, MaxUrls)
    /\ concurrency \in -1..MaxConcurrency
    /\ sem = 0
    /\ workers = <<>>
    /\ results = <<>>
    /\ crawlState = "called"
    /\ finished = <<>>
    /\ fcall = NoFetch
    /\ flog = <<>>
    /\ rcall = RobotsIdle
    /\ LinksIdle
    /\ SpiderIdle

\* lines 223-226: asyncio.Semaphore(concurrency) raises ValueError for a
\* negative value and accepts 0; then one worker per URL is created
CrawlStart ==
    /\ crawlState = "called"
    /\ IF concurrency < 0
       THEN /\ crawlState' = "raised"
            /\ UNCHANGED <<sem, workers>>
       ELSE /\ crawlState' = "running"
            /\ sem' = concurrency
            /\ workers' = [i \in 1..Len(urls) |-> NewWorker(urls[i])]
    /\ UNCHANGED <<urls, concurrency, results, finished, fetchVars, robotsVars,
                   linksVars, spiderVars>>

NextConfig == CrawlStart \/ Next

SpecConfig == InitConfig /\ [][NextConfig]_vars

Holders == {i \in Workers : workers[i].permit}

\* C18: crawl called with concurrency <= 0 ends in an error before any work
\* starts: it never runs or returns, no worker is created and none is left
\* waiting on the gate.
C18_InvalidConfigRejected ==
    (concurrency <= 0 /\ crawlState # "called") =>
        /\ crawlState = "raised"
        /\ workers = <<>>


\* C19: a worker that has ended, with a record or an error record, holds no
\* permit: a failed fetch leaks none, and when crawl returns all concurrency
\* permits are free again.
C19_PermitsGivenBack ==
    /\ \A i \in Workers : workers[i].pc \in {"done", "raised"} => ~workers[i].permit
    /\ sem + Cardinality(Holders) = concurrency
    /\ crawlState = "returned" => sem = concurrency

C19_Witness ==
    /\ crawlState = "returned"
    /\ sem = concurrency
    /\ \E i, j \in Workers :
          /\ IsErrorRecord(workers[i].ret)
          /\ ~IsErrorRecord(workers[j].ret)

----------------------------------------------------------------------------
(* Claims about fetch *)

Attempts == Len(flog)

\* C6: fetch issues a further GET only after a transport failure of the
\* previous attempt; the first attempt that receives a response, whatever its
\* status, ends the call with exactly that response; the number of attempts
\* never exceeds retries.
C6_NoRetryAfterResponse ==
    /\ Attempts <= fcall.retries
    /\ \A i \in 1..Attempts :
          /\ i < Attempts => flog[i].kind = "error"
          /\ flog[i].kind = "response" =>
                /\ i = Attempts
                /\ fcall.st = "returned"
                /\ fcall.result = flog[i]

C6_Witness ==
    /\ Attempts = 2
    /\ flog[1].kind = "error"
    /\ flog[2].kind = "response"
    /\ flog[2].status = 500
    /\ fcall.st = "returned"

\* C7: when every attempt failed at transport level, fetch raises the
\* transport error of its last attempt, for every retries value.
C7_RaisesLastTransportError ==
    fcall.st = "raised" =>
        /\ Attempts >= 1
        /\ fcall.raised = flog[Attempts].exc
        /\ fcall.raised \in TransportErrors

----------------------------------------------------------------------------
(* Claims about check_robots *)

\* the length of the longest rule that is a prefix of the path, 0 for none
LongestMatch(rules, path) ==
    Max({0} \cup {Len(x) : x \in {y \in Range(rules) : startswith(path, y)}})

\* C8: the verdict is "Disallowed" exactly when the longest matching disallow
\* prefix is strictly longer than the longest matching allow prefix, and
\* "Allowed" otherwise, ties and no match included.
C8_LongestPrefixVerdict ==
    rcall.ret.evaluated =>
        LET path == robots_path(rcall.page_url)
            a    == LongestMatch(rcall.ret.rules.allow, path)
            d    == LongestMatch(rcall.ret.rules.dis, path)
        IN  /\ rcall.ret.verdict \in {"Allowed", "Disallowed"}
            /\ rcall.ret.verdict = "Disallowed" <=> d > a

C8_Witness ==
    /\ rcall.ret.evaluated
    /\ LET path == robots_path(rcall.page_url)
           a    == LongestMatch(rcall.ret.rules.allow, path)
           d    == LongestMatch(rcall.ret.rules.dis, path)
       IN  a = d /\ a > 0 /\ rcall.ret.verdict = "Allowed"

\* C9: for every robots.txt body, malformed lines included, check_robots
\* returns one of the four verdicts and never raises.
C9_AlwaysAVerdict ==
    rcall.st # "fetching" =>
        /\ rcall.st = "returned"
        /\ rcall.ret.exc = "None"
        /\ rcall.ret.verdict \in Verdicts

\* C10: when both attempts of the robots.txt fetch end in a transport error,
\* check_robots returns "robots.txt error" and evaluates no rule.
C10_FetchFailureIsError ==
    (rcall.st # "fetching" /\ \A i \in 1..Attempts : flog[i].kind = "error") =>
        /\ Attempts = RobotsRetries
        /\ rcall.st = "returned"
        /\ rcall.ret.verdict = "robots.txt error"
        /\ ~rcall.ret.evaluated
        /\ rcall.ret.rules = NoRules

C10_Witness ==
    /\ rcall.st = "returned"
    /\ fcall.st = "raised"
    /\ Attempts = 2
    /\ flog[1].kind = "error" /\ flog[2].kind = "error"
    /\ rcall.ret.verdict = "robots.txt error"

\* the body that the robots.txt fetch returned
RobotsTxt == fcall.result.body

IsUserAgentLine(line) == startswith(lower(strip(line)), <<"user-agent">>)

\* the User-agent line that opens the block of line i, 0 before the first one
BlockOf(txt, i) ==
    LET before == {j \in 1..(i - 1) : IsUserAgentLine(txt[j])}
    IN  IF before = {} THEN 0 ELSE Max(before)

\* the block of line i is one whose User-agent value is exactly "*"
InStarBlock(txt, i) ==
    /\ BlockOf(txt, i) # 0
    /\ strip(partition(strip(txt[BlockOf(txt, i)])).val) = <<"*">>

DirectiveValues(txt, name, lines) ==
    {strip(partition(strip(txt[i])).val) :
        i \in {j \in lines : strip(lower(partition(strip(txt[j])).head)) = <<name>>}}

StarBlockLines(txt) ==
    {i \in 1..Len(txt) : ~IsUserAgentLine(txt[i]) /\ InStarBlock(txt, i)}

\* C11: a block applies exactly when its User-agent value is "*"; only the
\* Allow and Disallow lines of such blocks reach the allow and disallow sets,
\* and lines before the first User-agent line or in a block for another
\* agent value contribute nothing.
C11_OnlyStarBlocksCount ==
    rcall.ret.evaluated =>
        /\ Range(rcall.ret.rules.allow)
              = DirectiveValues(RobotsTxt, "allow", StarBlockLines(RobotsTxt))
        /\ Range(rcall.ret.rules.dis)
              = DirectiveValues(RobotsTxt, "disallow", StarBlockLines(RobotsTxt)) \ {<<>>}

----------------------------------------------------------------------------
(* Claims about find_broken_links and check_link *)

Requests(method, link) == {i \in 1..Len(llog) : llog[i] = Request(method, link)}

HostsInScope ==
    {"a.de", "www.a.de", "WWW.A.de", "berendsohn-digital.de",
     "shop.berendsohn-digital.de", "berendsohn-digitalservice.de"}

LinkInScope(link) ==
    /\ Len(link) >= 2
    /\ link[1] \in {"http://", "https://"}
    /\ link[2] \in HostsInScope
    /\ ~Contains(link, "#")

\* C13: no HEAD or GET goes to a link whose host is out of scope or to a
\* mailto:, tel: or #-fragment href, and none is reported broken.
C13_OnlyInScopeProbed ==
    /\ \A i \in 1..Len(llog) : LinkInScope(llog[i].link)
    /\ \A i \in 1..Len(lcall.ret.items) : LinkInScope(lcall.ret.items[i].link)

C13_Witness ==
    /\ lcall.st = "returned"
    /\ \E i \in 1..Len(lcall.html.anchors) :
          lcall.html.anchors[i].href = <<"https://", "other.com">>
    /\ Len(lcall.ret.items) = 1
    /\ llog # <<>>

\* the anchors of the page that are not skipped and resolve to link
AnchorsOf(link) ==
    {i \in 1..Len(lcall.html.anchors) :
        LET href == lcall.html.anchors[i].href
        IN  /\ href # <<>>
            /\ href[1] \notin {"mailto:", "tel:", "#"}
            /\ urljoin(lcall.base_url, href) = link}

\* C20: every distinct absolute URL gets at most one HEAD probe, appears at
\* most once in the broken-link output, and is reported with the text of the
\* last anchor of the page that points to it.
C20_LinksDeduplicated ==
    /\ \A i \in 1..Len(llog) : Cardinality(Requests("HEAD", llog[i].link)) <= 1
    /\ \A i, j \in 1..Len(lcall.ret.items) :
          lcall.ret.items[i].link = lcall.ret.items[j].link => i = j
    /\ \A i \in 1..Len(lcall.ret.items) :
          LET item == lcall.ret.items[i]
              last == lcall.html.anchors[Max(AnchorsOf(item.link))].text
          IN  /\ AnchorsOf(item.link) # {}
              /\ item.text = IF last = "" THEN "[kein Text]" ELSE last

C20_Witness ==
    /\ lcall.st = "returned"
    /\ lcall.html.anchors = << Anchor(<<"/", "x">>, "one"),
                               Anchor(<<"https://", "a.de", "/", "x">>, "two") >>
    /\ Len(llog) = 2
    /\ lcall.ret.items = << [link |-> <<"https://", "a.de", "/", "x">>, text |-> "two"] >>

----------------------------------------------------------------------------
(* Claims about crawl_domain()                                             *)

SpiderRunning == sp.pc \in {"loop", "fetch", "returned"}

\* C14: no URL is in the visited set and in the frontier at the same time
C14_VisitedFrontierDisjoint ==
    SpiderRunning => sp.visited \cap sp.to_visit = {}

\* a second page is visited while discovered ones still wait
C14_Witness ==
    /\ sp.pc = "loop"
    /\ Cardinality(sp.visited) >= 2
    /\ sp.to_visit # {}

\* C15: with max_urls >= 1, visited and frontier together never hold more
\* than max_urls URLs
C15_BudgetBoundsSets ==
    (SpiderRunning /\ sp.max_urls >= 1) =>
        Cardinality(sp.visited) + Cardinality(sp.to_visit) <= sp.max_urls

\* the budget is full and has kept a discovered link out
C15_Witness ==
    /\ sp.pc = "loop"
    /\ sp.dropped # {}
    /\ sp.to_visit # {}
    /\ Cardinality(sp.visited) + Cardinality(sp.to_visit) = sp.max_urls

\* C16: the crawl loop ends, after at most max_urls iterations
C16_LoopTerminates ==
    <>(sp.pc = "returned" /\ sp.iterations <= sp.max_urls)

\* a crawl that used its whole budget of iterations
C16_Witness ==
    /\ sp.pc = "returned"
    /\ sp.max_urls >= 2
    /\ sp.iterations = sp.max_urls

\* C17: traversal follows the www-stripped host, the report keeps only the
\* exact canonical host
C17_ExactHostReported ==
    SpiderRunning =>
        /\ \A u \in sp.all_internal_urls : u[2] = sp.exact_netloc
        /\ \A i \in 1..Len(sp.result) : sp.result[i][2] = sp.exact_netloc
        /\ \A u \in sp.visited \cup sp.to_visit :
              StripWww(u[2]) = StripWww(sp.exact_netloc)

\* the start resolved to the www host; the page on the bare host was visited
\* and is not in the returned list
C17_Witness ==
    /\ sp.pc = "returned"
    /\ sp.exact_netloc = "www.a.de"
    /\ <<"https://", "a.de", "/", "p">> \in sp.visited
    /\ sp.result # <<>>
    /\ \A i \in 1..Len(sp.result) : sp.result[i] # <<"https://", "a.de", "/", "p">>

\* C21: a URL whose fetch fails adds nothing to the frontier, is not put in
\* the internal-URL set, and the loop goes on
C21_FailedFetchSkipped ==
    /\ [][(sp.pc = "fetch" /\ sp.url \in sp'.failed) =>
             /\ sp'.to_visit = sp.to_visit
             /\ sp'.all_internal_urls = sp.all_internal_urls
             /\ sp'.visited = sp.visited
             /\ sp'.pc = "loop"]_vars
    /\ [](SpiderRunning =>
             /\ sp.failed \cap sp.all_internal_urls = {}
             /\ \A i \in 1..Len(sp.result) : sp.result[i] \notin sp.failed)

\* after a failed fetch the next URL of the frontier is being fetched, and a
\* page is already recorded
C21_Witness ==
    /\ sp.pc = "fetch"
    /\ sp.failed # {}
    /\ sp.url \notin sp.failed
    /\ sp.all_internal_urls # {}

\* C22: a popped URL is never in visited already, so no iteration is a skip:
\* each one fetches one URL that was not fetched before and adds it to
\* visited
C22_EveryIterationFetches ==
    /\ [][(sp.pc = "loop" /\ sp'.iterations = sp.iterations + 1) =>
             /\ sp'.pc = "fetch"
             /\ sp'.url \in sp.to_visit
             /\ sp'.url \notin sp.visited
             /\ Cardinality(sp'.visited) = Cardinality(sp.visited) + 1
             /\ Len(sp'.fetch_log) = Len(sp.fetch_log) + 1]_vars
    /\ [](SpiderRunning =>
             /\ \A i, j \in 1..Len(sp.fetch_log) :
                   sp.fetch_log[i] = sp.fetch_log[j] => i = j
             /\ Len(sp.fetch_log) = sp.iterations
             /\ Cardinality(sp.visited) = sp.iterations)

\* the third iteration of a crawl has popped a URL and fetches it
C22_Witness ==
    /\ sp.pc = "fetch"
    /\ sp.iterations >= 3
    /\ sp.url = sp.fetch_log[Len(sp.fetch_log)]

\* the URLs a page of the site links to on the base host, as line 68-71
\* resolve, normalise and select them
SiteLinks(c, u) ==
    LET hrefs == site_page(c.site, u).hrefs
        full(h) == rstrip_slash(urldefrag(urljoin(u, h)))
    IN  { full(hrefs[i]) : i \in {k \in 1..Len(hrefs) :
              /\ hrefs[k] # <<>>
              /\ is_valid_link(hrefs[k])
              /\ StripWww(full(hrefs[k])[2]) = c.base_netloc} }

RECURSIVE Closure(_, _)
Closure(c, S) ==
    LET N == S \cup UNION {SiteLinks(c, u) : u \in S}
    IN  IF N = S THEN S ELSE Closure(c, N)

\* the URLs reachable from the seed root
Reachable(c) == Closure(c, {c.domain_root})

\* C23: when the site reachable from the root fits the budget and no fetch
\* fails, the budget test keeps no link out, every reachable URL is visited,
\* and the returned list is the sorted list of the reachable URLs on the
\* exact host, so it is the same for every order of popping
C23_WithinBudgetComplete ==
    ( /\ SpiderRunning
      /\ sp.failed = {}
      /\ Cardinality(Reachable(sp)) <= sp.max_urls )
    => /\ sp.dropped = {}
       /\ sp.visited \cup sp.to_visit \subseteq Reachable(sp)
       /\ sp.pc = "returned" =>
             /\ sp.visited = Reachable(sp)
             /\ Range(sp.result) = {u \in Reachable(sp) : u[2] = sp.exact_netloc}
             /\ \A i, j \in 1..Len(sp.result) :
                   i < j => StrLess(sp.result[i], sp.result[j])

\* a site of three reachable URLs on both spellings of the host crawled with
\* a budget of exactly three
C23_Witness ==
    /\ sp.pc = "returned"
    /\ sp.failed = {}
    /\ Cardinality(Reachable(sp)) = sp.max_urls
    /\ sp.max_urls >= 3
    /\ Len(sp.result) >= 2
    /\ Len(sp.result) < Cardinality(sp.visited)

----------------------------------------------------------------------------
(* Claims about the termination of crawl()                                 *)

\* C24: with concurrency >= 1 and every request ending, every waiting worker
\* gets the gate and crawl eventually returns
C24_CrawlEventuallyReturns ==
    /\ \A i \in 1..MaxUrls :
          (i \in Workers /\ workers[i].pc = "start")
              ~> (i \in Workers /\ workers[i].pc # "start")
    /\ <>(crawlState = "returned")

\* every fair behaviour ends: crawl returns or raises, and it raises only the
\* IndexError of check_robots
CrawlEventuallyEnds ==
    /\ <>(crawlState \in {"returned", "raised"})
    /\ [](crawlState = "raised" =>
             \E i \in Workers : workers[i].pc = "raised" /\ workers[i].exc = "IndexError")

----------------------------------------------------------------------------
(* Claims about the "robots.txt not found" verdict                          *)

Begins404(txt) == Len(txt) >= 1 /\ Len(txt[1]) >= 1 /\ txt[1][1] = "404"

\* C25: "robots.txt not found" is returned exactly when a body was retrieved
\* and begins with "404", whatever the status; a retrieved body that does
\* not begin with "404" is parsed and gives "Allowed" or "Disallowed"
C25_NotFoundFromBodyOnly ==
    rcall.st # "fetching" =>
        /\ rcall.ret.verdict = "robots.txt not found"
              <=> (fcall.st = "returned" /\ Begins404(RobotsTxt))
        /\ (fcall.st = "returned" /\ ~Begins404(RobotsTxt)) =>
              /\ rcall.st = "returned"
              /\ rcall.ret.verdict \in {"Allowed", "Disallowed"}

\* the same with the bodies left out on which check_robots raises
NotFoundFromBodyUnlessRaised ==
    rcall.st = "raised" \/ C25_NotFoundFromBodyOnly

====
